---- MODULE Spec2Model ----
(***************************************************************************)
(* Poll scheduler of the sports-scores backend (backend/dailySchedule.js,  *)
(* backend/server.js, backend/ingest.js, backend/dbQueries.js) and the     *)
(* outcome of its broadcasts (backend/api.js).                             *)
(*                                                                         *)
(* Node runs one callback at a time; an async function gives up control at *)
(* every await.  Each action below is one such uninterrupted segment.  A   *)
(* store read whose result is used after the await is two segments: the    *)
(* read (result kept in the task record) and the continuation using it.    *)
(* Time is in minutes of the reference time zone.                          *)
(***************************************************************************)
EXTENDS Integers, Sequences, FiniteSets, Bags, TLC

VARIABLES
    now,                  \* wall clock (new Date(), CURRENT_DATE)
    store,                \* the games table: league -> set of game rows
    scheduledLeagueJobs,  \* dailySchedule.js:7, league -> job id or NoJob
    jobs,                 \* recurring jobs ever created: <<[league, cancelled]>>
    timers,               \* pending one-shot start timers: bag of [league, time]
    tasks,                \* async invocations in flight: bag of task records
    hourlyInstalled,      \* server.js:25 has run
    sockets,              \* the websocket of each connection: its condition
    clients,              \* api.js:9, the Set in insertion order
    clientFilters,        \* api.js:10, connection -> stored filters
    sent,                 \* what the latest step sent: <<[to, msg]>>
    calls                 \* api.js invocations awaiting a store read: a bag

apiVars == <<sockets, clients, clientFilters, calls>>

vars == <<now, store, scheduledLeagueJobs, jobs, timers, tasks, hourlyInstalled,
          sockets, clients, clientFilters, sent, calls>>

----------------------------------------------------------------------------
(* Bounds of the model *)

MaxJobs == 3      \* recurring jobs created in one behaviour
MaxTasks == 2     \* async invocations in flight at once
MaxTimers == 2    \* pending one-shot timers at once
MaxCalls == 1     \* message handlers awaiting a store read at once
MaxTokens == 2    \* tokens in the filter list of a request to be evaluated

(* Program constants *)

PollLeadMinutes == 15     \* dailySchedule.js:56
MinutesPerDay == 1440     \* dbQueries.js:9, INTERVAL '1 day'

----------------------------------------------------------------------------
(* Input domains *)

leagueConfigs == <<"NFL", "NHL">>

Leagues == {leagueConfigs[i] : i \in 1..Len(leagueConfigs)}

NoJob == 0

excludedStates == {"post", "completed", "final"}

ClockValues == {600, 645}

G(i, s, st) == [id |-> i, start |-> s, state |-> st]

\* What the upstream scoreboard of a league may answer to one fetch, in the
\* order of its events.  The "daily" profile varies the start times and states
\* a daily run has to decide on; the "race" profile keeps two answers for one
\* league, none for the other, and leaves room for overlapping invocations.
Scoreboards(profile, league) ==
    IF profile = "daily"
    THEN IF league = "NFL"
         THEN { << G(1, 615, "pre") >>,
                << G(1, 660, "pre") >>,
                << G(1, 660, "in") >>,
                << G(1, 600, "post") >>,
                << G(1, 600, "post"), G(2, 600, "pre") >>,
                << G(1, 1500, "pre") >> }
         ELSE { << G(1, 660, "pre") >>,
                << G(1, 600, "post") >> }
    ELSE IF profile = "api"
    THEN IF league = "NFL"
         THEN { << G(2, 600, "in"), G(1, 615, "pre") >> }
         ELSE { <<>> }
    ELSE IF league = "NFL"
         THEN { << G(1, 615, "pre") >>,
                << G(1, 600, "post") >> }
         ELSE { <<>> }

----------------------------------------------------------------------------
(* dbQueries.js *)

currentDay(t) == (t \div MinutesPerDay) * MinutesPerDay

nextDay(t) == currentDay(t) + MinutesPerDay

DATE(t) == t \div MinutesPerDay

clearTable(st, names) == [l \in Leagues |-> IF l \in names THEN {} ELSE st[l]]

upsertGame(st, league, g) ==
    [st EXCEPT ![league] = {x \in @ : x.id # g.id} \cup {g}]

\* Mutant: the state filter of the query is dropped.
getNotFinalGamesTodayAnyState(st, t) ==
    { [league |-> l, start_time |-> g.start, state |-> g.state] :
        <<l, g>> \in { <<l2, g2>> \in UNION {{l3} \X st[l3] : l3 \in Leagues} :
                          /\ g2.start >= currentDay(t)
                          /\ g2.start < nextDay(t) } }

getNotFinalGamesToday(st, t) ==
    { [league |-> l, start_time |-> g.start, state |-> g.state] :
        <<l, g>> \in { <<l2, g2>> \in UNION {{l3} \X st[l3] : l3 \in Leagues} :
                          /\ g2.start >= currentDay(t)
                          /\ g2.start < nextDay(t)
                          /\ g2.state \notin excludedStates } }

\* Mutant: the count is taken over the final games instead of the others.
areAllGamesFinalInverted(st, league, t) ==
    Cardinality({ g \in st[league] :
                    /\ DATE(g.start) = DATE(currentDay(t))
                    /\ g.state \in excludedStates }) = 0

areAllGamesFinal(st, league, t) ==
    Cardinality({ g \in st[league] :
                    /\ DATE(g.start) = DATE(currentDay(t))
                    /\ g.state \notin excludedStates }) = 0

----------------------------------------------------------------------------
(* Task records: one per async invocation in flight *)

Task(kind, pc, job, todo) ==
    [kind |-> kind, pc |-> pc, job |-> job, todo |-> todo,
     fetched |-> <<>>, rows |-> {}, done |-> FALSE,
     ingestError |-> FALSE,   \* history of a firing: ingest.js:62 caught an error
     storeError |-> FALSE,    \* history of a firing: the error was upsertGame's
     before |-> {}]           \* history of a firing awaiting its fetch: the
                              \* league's games before its clearTable

Add(bag, e) == bag (+) SetToBag({e})

Rem(bag, e) == bag (-) SetToBag({e})

TaskLeague(t) == jobs[t.job].league

\* Where control goes when ingestData returns normally.
AfterIngest(t) ==
    [t EXCEPT !.pc = IF t.kind = "hourly" THEN "query" ELSE "broadcast",
              !.todo = <<>>, !.fetched = <<>>]

\* Mutant: ingestData returns after its first league, the others still to do.
NextLeagueReturnsEarly(t) ==
    [t EXCEPT !.pc = IF t.kind = "hourly" THEN "query" ELSE "broadcast",
              !.todo = Tail(t.todo), !.fetched = <<>>]

\* End of one iteration of the for loop over leaguesToIngest.
NextLeague(t) ==
    IF Tail(t.todo) = <<>>
    THEN AfterIngest(t)
    ELSE [t EXCEPT !.pc = "fetch", !.todo = Tail(t.todo), !.fetched = <<>>]

----------------------------------------------------------------------------
(* dailySchedule.js *)

\* Mutant: the registered job is overwritten without being cancelled.
startFrequentPollNoCancel(sched, league) ==
    [sched EXCEPT !.jobs = Append(@, [league |-> league, cancelled |-> FALSE]),
                  !.reg = [@ EXCEPT ![league] = Len(sched.jobs) + 1]]

\* startFrequentPoll(league) on the registry and the job objects.
startFrequentPoll(sched, league) ==
    LET old == sched.reg[league]
        js  == IF old # NoJob
               THEN [sched.jobs EXCEPT ![old].cancelled = TRUE]
               ELSE sched.jobs
        new == Len(sched.jobs) + 1
    IN  [sched EXCEPT !.jobs = Append(js, [league |-> league, cancelled |-> FALSE]),
                      !.reg = [sched.reg EXCEPT ![league] = new]]

\* schedule.scheduleJob(date, callback): a pending one-shot timer.
scheduleOneShot(sched, league, time) ==
    [sched EXCEPT !.timers = Add(@, [league |-> league, time |-> time])]

Min(S) == CHOOSE x \in S : \A y \in S : x <= y

\* Step 2 of runDailySchedule: league -> {earliestStart, hasInProgress}.
leagueMap(rows) ==
    [l \in {r.league : r \in rows} |->
        [earliestStart |-> Min({r.start_time : r \in {q \in rows : q.league = l}}),
         hasInProgress |-> \E r \in rows : r.league = l /\ r.state = "in"]]

pollStartTime(earliestStart) == earliestStart - PollLeadMinutes

\* Mutant: a game in progress does not count.
startsNowIgnoringLive(pollStart, hasInProgress, t) == pollStart < t

\* The test of dailySchedule.js:59.
startsNow(pollStart, hasInProgress, t) == pollStart < t \/ hasInProgress

\* Mutant: a league whose job has cancelled itself is not started again.
scheduleLeagueOncePerDay(sched, league, entry, t) ==
    IF /\ sched.reg[league] = NoJob
       /\ \E j \in DOMAIN sched.jobs :
             sched.jobs[j].league = league /\ sched.jobs[j].cancelled
    THEN sched
    ELSE IF startsNow(pollStartTime(entry.earliestStart), entry.hasInProgress, t)
         THEN startFrequentPoll(sched, league)
         ELSE scheduleOneShot(sched, league, pollStartTime(entry.earliestStart))

\* One iteration of the loop of step 3.
scheduleLeague(sched, league, entry, t) ==
    IF startsNow(pollStartTime(entry.earliestStart), entry.hasInProgress, t)
    THEN startFrequentPoll(sched, league)
    ELSE scheduleOneShot(sched, league, pollStartTime(entry.earliestStart))

\* Object.keys(leagueMap), as a sequence.
RECURSIVE leagueKeys(_, _)
leagueKeys(cfg, present) ==
    IF cfg = <<>> THEN <<>>
    ELSE IF Head(cfg) \in present
         THEN <<Head(cfg)>> \o leagueKeys(Tail(cfg), present)
         ELSE leagueKeys(Tail(cfg), present)

RECURSIVE scheduleAll(_, _, _, _)
scheduleAll(sched, keys, lmap, t) ==
    IF keys = <<>> THEN sched
    ELSE scheduleAll(scheduleLeague(sched, Head(keys), lmap[Head(keys)], t),
                     Tail(keys), lmap, t)

\* Mutant: the run first stops the jobs of the leagues absent from the rows.
runDailyScheduleStoppingAbsent(sched, rows, t) ==
    LET present == {r.league : r \in rows}
        stopped == [reg    |-> [l \in Leagues |->
                                  IF l \in present THEN sched.reg[l] ELSE NoJob],
                    jobs   |-> [j \in DOMAIN sched.jobs |->
                                  IF sched.jobs[j].league \in present
                                  THEN sched.jobs[j]
                                  ELSE [sched.jobs[j] EXCEPT !.cancelled = TRUE]],
                    timers |-> sched.timers]
    IN  IF rows = {} THEN stopped
        ELSE scheduleAll(stopped, leagueKeys(leagueConfigs, present),
                         leagueMap(rows), t)

\* Steps 2 and 3 of runDailySchedule on the rows of step 1.
runDailySchedule(sched, rows, t) ==
    IF rows = {} THEN sched
    ELSE scheduleAll(sched, leagueKeys(leagueConfigs, DOMAIN leagueMap(rows)),
                     leagueMap(rows), t)

Sched == [reg |-> scheduledLeagueJobs, jobs |-> jobs, timers |-> timers]

WithinBounds(sched) ==
    /\ Len(sched.jobs) <= MaxJobs
    /\ BagCardinality(sched.timers) <= MaxTimers

SetSched(sched) ==
    /\ WithinBounds(sched)
    /\ scheduledLeagueJobs' = sched.reg
    /\ jobs' = sched.jobs
    /\ timers' = sched.timers

----------------------------------------------------------------------------
(* dbQueries.js: the reads of api.js *)

\* A row of the games table as a query returns it.
Row(l, g) == [league |-> l, id |-> g.id, start |-> g.start, state |-> g.state]

AllRows(st) == UNION {{Row(l, g) : g \in st[l]} : l \in Leagues}

\* league ASC: the league names of api.js:24 in alphabetical order.
LeagueOrder == <<"MLB", "MLS", "NBA", "NCAAB", "NCAAF", "NFL", "NHL">>

LeagueRank(l) == CHOOSE i \in 1..Len(LeagueOrder) : LeagueOrder[i] = l

\* ORDER BY of getAllGames, dbQueries.js:142-146
AllGamesBefore(a, b) ==
    LET ka == <<IF a.state = "in" THEN 1 ELSE 2, LeagueRank(a.league), a.start, a.id>>
        kb == <<IF b.state = "in" THEN 1 ELSE 2, LeagueRank(b.league), b.start, b.id>>
    IN  \E i \in 1..4 : ka[i] < kb[i] /\ \A j \in 1..(i - 1) : ka[j] = kb[j]

RECURSIVE OrderedAll(_)
OrderedAll(S) ==
    IF S = {} THEN <<>>
    ELSE LET m == CHOOSE x \in S : \A y \in S \ {x} : AllGamesBefore(x, y)
         IN  <<m>> \o OrderedAll(S \ {m})

\* Mutant: the query keeps the not-final rows only, as getNotFinalGamesToday does.
getAllGamesNotFinal(st) ==
    OrderedAll({r \in AllRows(st) : r.state \notin excludedStates})

\* Mutant: the answer comes from a copy of the table that still holds a game
\* the table has lost.
getAllGamesCached(st) ==
    OrderedAll(AllRows(st) \cup {[league |-> "NFL", id |-> 9, start |-> 630,
                                  state |-> "pre"]})

getAllGames(st) == OrderedAll(AllRows(st))

\* ORDER BY start_time ASC of getGamesByLeague, dbQueries.js:161: the query
\* leaves the order of rows of equal start time to the storage layer, so every
\* arrangement of S by ascending start time is a possible answer.
OrderedByStart(S) ==
    {rows \in [1..Cardinality(S) -> S] :
        /\ \A i, j \in DOMAIN rows : i < j => /\ rows[i] # rows[j]
                                               /\ rows[i].start <= rows[j].start}

\* The answers getGamesByLeague may give on one state of the store.
getGamesByLeague(st, leagueName) ==
    OrderedByStart({r \in AllRows(st) : r.league = leagueName})

----------------------------------------------------------------------------
(* api.js: values, messages, filter evaluation *)

Conns == {"c1", "c2"}

\* What data.filters of a parsed message may be: a list of tokens, nothing
\* (the field is missing), or a value that is no list (a non-empty string).
List(items) == [tag |-> "list", items |-> items]

Undefined == [tag |-> "undefined", items |-> <<>>]

NotAList == [tag |-> "string", items |-> <<>>]

\* A list element that is not a string.
NonString == "#number"

\* The league tokens of api.js:24.
KnownLeagueTokens == {"NFL", "NBA", "MLB", "NHL", "MLS", "NCAAF", "NCAAB"}

\* f.startsWith('state_') and f.replace('state_', ''), api.js:27: every token
\* with the prefix is taken, whatever follows it; "state_final" is one whose
\* rest is no state of a game.
StateTokenMap ==
    [tok \in {"state_pre", "state_in", "state_post", "state_final"} |->
        IF tok = "state_pre" THEN "pre"
        ELSE IF tok = "state_in" THEN "in"
        ELSE IF tok = "state_post" THEN "post"
        ELSE "final"]

\* allFilteredGames.concat(leagueGames) over the leagues, api.js:31-35, for
\* every choice of the answers: answers[i] is the set of answers for league i.
\* Mutant: only the games of the first league asked for are kept.
ConcatFirstOnly(answers) == IF answers = <<>> THEN {<<>>} ELSE Head(answers)

RECURSIVE Concat(_)
Concat(answers) ==
    IF answers = <<>> THEN {<<>>}
    ELSE {first \o rest : first \in Head(answers), rest \in Concat(Tail(answers))}

\* The lists getFilteredGames(filters) may return on one state of the store
\* when its reads are answered, api.js:16-60.  A TypeError raised by a value
\* that is no list of strings is caught at line 56.
getFilteredGames(st, filters) ==
    IF filters.tag = "undefined" THEN {getAllGames(st)}
    ELSE IF filters.tag # "list" THEN {<<>>}
    ELSE IF filters.items = <<>> THEN {getAllGames(st)}
    ELSE IF \E i \in 1..Len(filters.items) : filters.items[i] = NonString THEN {<<>>}
    ELSE LET IsLeague(f) == f \in KnownLeagueTokens
             IsState(f) == f \in DOMAIN StateTokenMap
             leagueFilters == SelectSeq(filters.items, IsLeague)
             stateTokens == SelectSeq(filters.items, IsState)
             stateFilters == {StateTokenMap[stateTokens[i]] : i \in 1..Len(stateTokens)}
             Matches(g) == g.state \in stateFilters
         IN  IF leagueFilters # <<>>
             THEN LET all == Concat([i \in 1..Len(leagueFilters) |->
                                       getGamesByLeague(st, leagueFilters[i])])
                  IN  IF stateFilters # {}
                      THEN {SelectSeq(games, Matches) : games \in all}
                      ELSE all
             ELSE IF stateFilters # {}
                  THEN {SelectSeq(getAllGames(st), Matches)}
                  ELSE {getAllGames(st)}

\* Outbound messages (timestamps and texts left out).
Msg(type) ==
    [type |-> type, data |-> <<>>, filters |-> Undefined, count |-> 0,
     is_refresh |-> FALSE, league |-> ""]

\* The filtered_data reply of api.js:129-136 and 146-153.
ReplyMsg(data, filters) ==
    [Msg("filtered_data") EXCEPT !.data = data, !.filters = filters,
                                 !.count = Len(data)]

\* Mutant: the refresh is sent as a reply is, without the is_refresh tag.
RefreshMsgUntagged(data, filters) == ReplyMsg(data, filters)

\* The filtered_data message of api.js:257-265.
RefreshMsg(data, filters) ==
    [ReplyMsg(data, filters) EXCEPT !.is_refresh = TRUE]

\* The games_updated message of api.js:233-240.
NotificationMsg(league) == [Msg("games_updated") EXCEPT !.league = league]

\* Inbound messages: what a client may send.
TextMessage == [json |-> FALSE, type |-> "", filters |-> Undefined]

JsonMessage(type, filters) == [json |-> TRUE, type |-> type, filters |-> filters]

FilterValues == {List(<<>>), List(<<"NFL">>), Undefined, NotAList}

Inbound ==
    {TextMessage}
       \cup {JsonMessage(ty, Undefined) :
                ty \in {"connection", "user_message", "test_request", "bogus"}}
       \cup {JsonMessage("filter_request", f) : f \in FilterValues}

----------------------------------------------------------------------------
(* Initial state: server.js has called main(), nothing has been ingested *)

Init ==
    /\ now = 600
    /\ store = [l \in Leagues |-> {}]
    /\ scheduledLeagueJobs = [l \in Leagues |-> NoJob]
    /\ jobs = <<>>
    /\ timers = EmptyBag
    /\ tasks = SetToBag({Task("main", "clear", NoJob, leagueConfigs)})
    /\ hourlyInstalled = FALSE
    /\ sockets = [c \in Conns |-> "new"]
    /\ clients = <<>>
    /\ clientFilters = [c \in {} |-> Undefined]
    /\ sent = <<>>
    /\ calls = EmptyBag

----------------------------------------------------------------------------
(* ingestData, ingest.js:13-65 *)

\* await clearTable(leaguesToIngest), ingest.js:16
Clear(t) ==
    /\ t.pc = "clear"
    /\ store' = clearTable(store, {t.todo[i] : i \in 1..Len(t.todo)})
    /\ tasks' = Add(Rem(tasks, t),
                    [t EXCEPT !.pc = "fetch",
                              !.before = IF t.kind = "poll" THEN store[Head(t.todo)]
                                         ELSE {}])
    /\ UNCHANGED <<now, scheduledLeagueJobs, jobs, timers, hourlyInstalled>>
    /\ sent' = <<>>
    /\ UNCHANGED apiVars

\* clearTable rejects: it is outside the try of ingestData, so the caller's
\* await throws (caught by the job callback; main() and the hourly callback reject).
ClearFails(t) ==
    /\ t.pc = "clear"
    /\ tasks' = Rem(tasks, t)
    /\ UNCHANGED <<now, store, scheduledLeagueJobs, jobs, timers, hourlyInstalled>>
    /\ sent' = <<>>
    /\ UNCHANGED apiVars

\* await axios.get(url) answers, ingest.js:23-51
Fetch(t, board) ==
    /\ t.pc = "fetch"
    /\ tasks' = Add(Rem(tasks, t),
                    IF board = <<>> THEN NextLeague([t EXCEPT !.before = {}])
                    ELSE [t EXCEPT !.pc = "upsert", !.fetched = board, !.before = {}])
    /\ UNCHANGED <<now, store, scheduledLeagueJobs, jobs, timers, hourlyInstalled>>
    /\ sent' = <<>>
    /\ UNCHANGED apiVars

\* axios.get rejects: caught at ingest.js:62, ingestData returns normally.
FetchFails(t) ==
    /\ t.pc = "fetch"
    /\ tasks' = Add(Rem(tasks, t), [AfterIngest(t) EXCEPT !.ingestError = (t.kind = "poll"),
                                                          !.before = {}])
    /\ UNCHANGED <<now, store, scheduledLeagueJobs, jobs, timers, hourlyInstalled>>
    /\ sent' = <<>>
    /\ UNCHANGED apiVars

\* await upsertGame(g), ingest.js:54-56
Upsert(t) ==
    /\ t.pc = "upsert"
    /\ store' = upsertGame(store, Head(t.todo), Head(t.fetched))
    /\ tasks' = Add(Rem(tasks, t),
                    IF Tail(t.fetched) = <<>> THEN NextLeague(t)
                    ELSE [t EXCEPT !.fetched = Tail(t.fetched)])
    /\ UNCHANGED <<now, scheduledLeagueJobs, jobs, timers, hourlyInstalled>>
    /\ sent' = <<>>
    /\ UNCHANGED apiVars

\* upsertGame rejects: caught at ingest.js:62, ingestData returns normally.
UpsertFails(t) ==
    /\ t.pc = "upsert"
    /\ tasks' = Add(Rem(tasks, t), [AfterIngest(t) EXCEPT !.ingestError = (t.kind = "poll"),
                                                          !.storeError = (t.kind = "poll")])
    /\ UNCHANGED <<now, store, scheduledLeagueJobs, jobs, timers, hourlyInstalled>>
    /\ sent' = <<>>
    /\ UNCHANGED apiVars

----------------------------------------------------------------------------
(* The job callback of startFrequentPoll, dailySchedule.js:90-109 *)

\* The recurring job fires: the callback starts and awaits ingestData([league]).
PollFire(j, limit) ==
    /\ j \in 1..Len(jobs)
    /\ ~jobs[j].cancelled
    /\ BagCardinality(tasks) < limit
    /\ tasks' = Add(tasks, Task("poll", "clear", j, <<jobs[j].league>>))
    /\ UNCHANGED <<now, store, scheduledLeagueJobs, jobs, timers, hourlyInstalled>>
    /\ sent' = <<>>
    /\ UNCHANGED apiVars

\* await broadcastUpdatedGames(...) returns (dailySchedule.js:97, server.js:18):
\* no client is connected, or the sends of api.js:243-247 went through; what the
\* refresh loop of api.js:251-270 raises is caught there.
Broadcast(t) ==
    /\ t.pc = "broadcast"
    /\ tasks' = Add(Rem(tasks, t),
                    [t EXCEPT !.pc = IF t.kind = "poll" THEN "check" ELSE "query"])
    /\ UNCHANGED <<now, store, scheduledLeagueJobs, jobs, timers, hourlyInstalled>>
    /\ sent' = <<>>
    /\ UNCHANGED apiVars

\* client.send throws in the notification loop of api.js:243-247, which no try
\* encloses (the refresh loop has one for the same call): broadcastUpdatedGames
\* rejects.  The job callback catches it at dailySchedule.js:106; main() rejects
\* at server.js:18 and neither runs the daily schedule nor installs the hourly job.
BroadcastFails(t) ==
    /\ t.pc = "broadcast"
    /\ tasks' = Rem(tasks, t)
    /\ UNCHANGED <<now, store, scheduledLeagueJobs, jobs, timers, hourlyInstalled>>
    /\ sent' = <<>>
    /\ UNCHANGED apiVars

\* await areAllGamesFinal(league) reads the store, dailySchedule.js:100
Check(t) ==
    /\ t.pc = "check"
    /\ tasks' = Add(Rem(tasks, t),
                    [t EXCEPT !.pc = "act",
                              !.done = areAllGamesFinal(store, TaskLeague(t), now)])
    /\ UNCHANGED <<now, store, scheduledLeagueJobs, jobs, timers, hourlyInstalled>>
    /\ sent' = <<>>
    /\ UNCHANGED apiVars

\* areAllGamesFinal rejects: caught at dailySchedule.js:106
CheckFails(t) ==
    /\ t.pc = "check"
    /\ tasks' = Rem(tasks, t)
    /\ UNCHANGED <<now, store, scheduledLeagueJobs, jobs, timers, hourlyInstalled>>
    /\ sent' = <<>>
    /\ UNCHANGED apiVars

\* job.cancel(); delete scheduledLeagueJobs[league], dailySchedule.js:103-104
selfCancel(sched, j) ==
    [sched EXCEPT !.jobs = [@ EXCEPT ![j].cancelled = TRUE],
                  !.reg = [@ EXCEPT ![sched.jobs[j].league] = NoJob]]

\* The continuation after the check, dailySchedule.js:101-105
Act(t) ==
    /\ t.pc = "act"
    /\ SetSched(IF t.done THEN selfCancel(Sched, t.job) ELSE Sched)
    /\ tasks' = Rem(tasks, t)
    /\ UNCHANGED <<now, store, hourlyInstalled>>
    /\ sent' = <<>>
    /\ UNCHANGED apiVars

----------------------------------------------------------------------------
(* runDailySchedule as called by main and by the hourly job *)

\* await getNotFinalGamesToday() reads the store, dailySchedule.js:20
Query(t) ==
    /\ t.pc = "query"
    /\ tasks' = Add(Rem(tasks, t),
                    [t EXCEPT !.pc = "process",
                              !.rows = getNotFinalGamesToday(store, now)])
    /\ UNCHANGED <<now, store, scheduledLeagueJobs, jobs, timers, hourlyInstalled>>
    /\ sent' = <<>>
    /\ UNCHANGED apiVars

\* getNotFinalGamesToday rejects: caught at dailySchedule.js:72; main goes on
\* to install the hourly job.
QueryFails(t) ==
    /\ t.pc = "query"
    /\ tasks' = Rem(tasks, t)
    /\ hourlyInstalled' = (hourlyInstalled \/ t.kind = "main")
    /\ UNCHANGED <<now, store, scheduledLeagueJobs, jobs, timers>>
    /\ sent' = <<>>
    /\ UNCHANGED apiVars

\* dailySchedule.js:21-71 runs without an await; then server.js:25 for main.
Process(t) ==
    /\ t.pc = "process"
    /\ SetSched(runDailySchedule(Sched, t.rows, now))
    /\ tasks' = Rem(tasks, t)
    /\ hourlyInstalled' = (hourlyInstalled \/ t.kind = "main")
    /\ UNCHANGED <<now, store>>
    /\ sent' = <<>>
    /\ UNCHANGED apiVars

\* The hourly job fires, server.js:25-29.  The clock of the model does not
\* count hours: the next hour may come at any point once the previous run has
\* returned (a run takes less than an hour).
HourlyFire(limit) ==
    /\ hourlyInstalled
    /\ \A t \in BagToSet(tasks) : t.kind = "poll"
    /\ BagCardinality(tasks) < limit
    /\ tasks' = Add(tasks, Task("hourly", "clear", NoJob, leagueConfigs))
    /\ UNCHANGED <<now, store, scheduledLeagueJobs, jobs, timers, hourlyInstalled>>
    /\ sent' = <<>>
    /\ UNCHANGED apiVars

\* A one-shot start timer fires, dailySchedule.js:64-67
TimerFire(tm) ==
    /\ BagIn(tm, timers)
    /\ tm.time <= now
    /\ SetSched(startFrequentPoll([Sched EXCEPT !.timers = Rem(@, tm)], tm.league))
    /\ UNCHANGED <<now, store, tasks, hourlyInstalled>>
    /\ sent' = <<>>
    /\ UNCHANGED apiVars

\* Time passes to the next instant of interest.  Due timers have fired, and
\* only an upstream fetch (axios without a timeout) may still be awaited: store
\* requests and broadcasts are answered within the instant.
Tick ==
    /\ \A tm \in BagToSet(timers) : tm.time > now
    /\ \A t \in BagToSet(tasks) : t.pc = "fetch"
    /\ \E t \in ClockValues :
          /\ t > now
          /\ \A u \in ClockValues : u > now => t <= u
          /\ now' = t
    /\ UNCHANGED <<store, scheduledLeagueJobs, jobs, timers, tasks, hourlyInstalled>>
    /\ sent' = <<>>
    /\ UNCHANGED apiVars

\* One step of the program, with the upstream answers of `profile` and at most
\* `limit` invocations in flight.
Step(profile, limit) ==
    \/ \E t \in BagToSet(tasks) : Clear(t)
    \/ \E t \in BagToSet(tasks) : ClearFails(t)
    \/ \E t \in BagToSet(tasks) :
          /\ t.pc = "fetch"
          /\ \E board \in Scoreboards(profile, Head(t.todo)) : Fetch(t, board)
    \/ \E t \in BagToSet(tasks) : FetchFails(t)
    \/ \E t \in BagToSet(tasks) : Upsert(t)
    \/ \E t \in BagToSet(tasks) : UpsertFails(t)
    \/ \E t \in BagToSet(tasks) : Broadcast(t)
    \/ \E t \in BagToSet(tasks) : BroadcastFails(t)
    \/ \E t \in BagToSet(tasks) : Check(t)
    \/ \E t \in BagToSet(tasks) : CheckFails(t)
    \/ \E t \in BagToSet(tasks) : Act(t)
    \/ \E t \in BagToSet(tasks) : Query(t)
    \/ \E t \in BagToSet(tasks) : QueryFails(t)
    \/ \E t \in BagToSet(tasks) : Process(t)
    \/ \E j \in 1..Len(jobs) : PollFire(j, limit)
    \/ HourlyFire(limit)
    \/ \E tm \in BagToSet(timers) : TimerFire(tm)
    \/ Tick

\* Overlapping invocations.
Next == Step("race", MaxTasks)

Spec == Init /\ [][Next]_vars

\* One invocation at a time, all upstream answers.
NextDaily == Step("daily", 1)

SpecDaily == Init /\ [][NextDaily]_vars

\* Segments of the firings of job j whose await is answered either way.
FiringStep(j) ==
    \E t \in BagToSet(tasks) :
        /\ t.kind = "poll" /\ t.job = j
        /\ \/ FetchFails(t)
           \/ t.pc = "fetch" /\ \E board \in Scoreboards("race", Head(t.todo)) : Fetch(t, board)
           \/ Upsert(t) \/ UpsertFails(t)
           \/ Broadcast(t) \/ BroadcastFails(t) \/ Act(t)

\* node-schedule keeps firing a job that is not cancelled and fires a due
\* one-shot timer; every await of a firing is answered, one way or the other;
\* the store does not reject the requests of a job's firings for ever.  Nothing
\* is assumed of the outcome of the broadcasts.
Fairness ==
    /\ \A j \in 1..MaxJobs : SF_vars(PollFire(j, MaxTasks))
    /\ \A j \in 1..MaxJobs : WF_vars(FiringStep(j))
    /\ \A j \in 1..MaxJobs :
          SF_vars(\E t \in BagToSet(tasks) : t.kind = "poll" /\ t.job = j /\ Clear(t))
    /\ \A j \in 1..MaxJobs :
          SF_vars(\E t \in BagToSet(tasks) : t.kind = "poll" /\ t.job = j /\ Check(t))
    /\ WF_vars(\E tm \in BagToSet(timers) : TimerFire(tm))

SpecLive == Spec /\ Fairness

----------------------------------------------------------------------------
(* api.js: connections, message handlers and the body of broadcastUpdatedGames.
   Spec, SpecDaily and SpecLive do not follow the connections: there the
   broadcast is the step Broadcast or BroadcastFails, its outcome for the
   caller.  SpecApi follows them, with one league's job firing. *)

\* Mutant: a new list of tokens is appended to the list already stored.
MapSetMerging(map, c, v) ==
    [x \in DOMAIN map \cup {c} |->
        IF x # c THEN map[x]
        ELSE IF c \in DOMAIN map /\ map[c].tag = "list" /\ v.tag = "list"
             THEN [v EXCEPT !.items = map[c].items \o v.items]
             ELSE v]

\* Map.set and Map.delete on clientFilters
MapSet(map, c, v) == [x \in DOMAIN map \cup {c} |-> IF x = c THEN v ELSE map[x]]

\* Mutant: the handlers leave the connection's selection in the map.
MapDeleteNothing(map, c) == map

MapDelete(map, c) == [x \in DOMAIN map \ {c} |-> map[x]]

\* Mutant: the handlers leave the connection in the set.
SetDeleteNothing(cs, c) == cs

\* Set.delete on clients
SetDelete(cs, c) == LET Keep(x) == x # c IN SelectSeq(cs, Keep)

Registered == {clients[i] : i \in 1..Len(clients)}

\* client.readyState === WebSocket.OPEN.  A "failing" socket is still OPEN but
\* its send throws; its 'error' event has not been emitted yet.
IsOpen(c) == sockets[c] \in {"open", "failing"}

\* Mutant: the message goes to every connection whose socket is sound.
SendToAll(out, c, m) ==
    LET Sound(d) == sockets[d] = "open"
        everyone == SelectSeq(<<"c1", "c2">>, Sound)
    IN  out \o [i \in 1..Len(everyone) |-> [to |-> everyone[i], msg |-> m]]

\* ws.send(JSON.stringify(m)) where a throw, if any, is caught or ends the
\* handler: the message leaves on a sound open socket only.
Send(out, c, m) ==
    IF sockets[c] = "open" THEN Append(out, [to |-> c, msg |-> m]) ELSE out

\* An invocation awaiting getFilteredGames(filters) on behalf of connection
\* conn; visited: the clients the refresh loop has taken so far.
Call(kind, conn, filters, visited) ==
    [kind |-> kind, conn |-> conn, filters |-> filters, visited |-> visited]

WithinApiBounds(cls) ==
    LET handlers == {c \in BagToSet(cls) : c.kind # "refresh"}
    IN  BagCardinality([c \in handlers |-> cls[c]]) <= MaxCalls

\* wss.on('connection'), api.js:106-116
Connect(c) ==
    /\ sockets[c] = "new"
    /\ sockets' = [sockets EXCEPT ![c] = "open"]
    /\ clients' = Append(clients, c)
    /\ clientFilters' = MapSet(clientFilters, c, List(<<>>))
    /\ sent' = << [to |-> c, msg |-> Msg("welcome")] >>
    /\ UNCHANGED <<calls, now, store, scheduledLeagueJobs, jobs, timers, tasks,
                   hourlyInstalled>>

\* The transport of an open socket breaks; nothing has been emitted yet.
SocketFails(c) ==
    /\ sockets[c] = "open"
    /\ sockets' = [sockets EXCEPT ![c] = "failing"]
    /\ sent' = <<>>
    /\ UNCHANGED <<clients, clientFilters, calls, now, store,
                   scheduledLeagueJobs, jobs, timers, tasks, hourlyInstalled>>

\* ws.on('error'), api.js:203-207: the socket is no longer OPEN.
ErrorEvent(c) ==
    /\ sockets[c] = "failing"
    /\ sockets' = [sockets EXCEPT ![c] = "closing"]
    /\ clients' = SetDelete(clients, c)
    /\ clientFilters' = MapDelete(clientFilters, c)
    /\ sent' = <<>>
    /\ UNCHANGED <<calls, now, store, scheduledLeagueJobs, jobs, timers,
                   tasks, hourlyInstalled>>

\* The peer starts closing: readyState leaves OPEN before 'close' is emitted.
BeginClose(c) ==
    /\ sockets[c] = "open"
    /\ sockets' = [sockets EXCEPT ![c] = "closing"]
    /\ sent' = <<>>
    /\ UNCHANGED <<clients, clientFilters, calls, now, store,
                   scheduledLeagueJobs, jobs, timers, tasks, hourlyInstalled>>

\* ws.on('close'), api.js:197-201
CloseEvent(c) ==
    /\ sockets[c] = "closing"
    /\ sockets' = [sockets EXCEPT ![c] = "closed"]
    /\ clients' = SetDelete(clients, c)
    /\ clientFilters' = MapDelete(clientFilters, c)
    /\ sent' = <<>>
    /\ UNCHANGED <<calls, now, store, scheduledLeagueJobs, jobs, timers,
                   tasks, hourlyInstalled>>

\* ws.on('message'), api.js:119-195, up to its first await or its end.
Message(c, m) ==
    /\ IsOpen(c)
    /\ IF ~m.json
       THEN \* JSON.parse throws, api.js:187-193
            /\ sent' = Send(<<>>, c, Msg("error"))
            /\ UNCHANGED <<clientFilters, calls>>
       ELSE IF m.type = "connection"
       THEN /\ calls' = Add(calls, Call("connection", c, List(<<>>), {}))
            /\ sent' = <<>>
            /\ UNCHANGED clientFilters
       ELSE IF m.type = "filter_request"
       THEN /\ clientFilters' = MapSet(clientFilters, c, m.filters)
            /\ calls' = Add(calls, Call("filter_request", c, m.filters, {}))
            /\ sent' = <<>>
       ELSE IF m.type = "user_message"
       THEN /\ sent' = Send(<<>>, c, Msg("echo"))
            /\ UNCHANGED <<clientFilters, calls>>
       ELSE IF m.type = "test_request"
       THEN /\ sent' = Send(<<>>, c, Msg("new_data"))
            /\ UNCHANGED <<clientFilters, calls>>
       ELSE /\ sent' = Send(<<>>, c, Msg("error"))
            /\ UNCHANGED <<clientFilters, calls>>
    /\ WithinApiBounds(calls')
    /\ UNCHANGED <<sockets, clients, now, store, scheduledLeagueJobs, jobs,
                   timers, tasks, hourlyInstalled>>

\* The handler's getFilteredGames is answered and the reply is sent,
\* api.js:128-137 and 145-154.
Answer(call) ==
    /\ call.kind \in {"connection", "filter_request"}
    /\ BagIn(call, calls)
    /\ calls' = Rem(calls, call)
    /\ \E data \in getFilteredGames(store, call.filters) :
          sent' = Send(<<>>, call.conn, ReplyMsg(data, call.filters))
    /\ WithinApiBounds(calls')
    /\ UNCHANGED <<sockets, clients, clientFilters, now, store,
                   scheduledLeagueJobs, jobs, timers, tasks, hourlyInstalled>>

\* The store rejects the read: getFilteredGames returns [], api.js:56-59.
AnswerFails(call) ==
    /\ call.kind \in {"connection", "filter_request"}
    /\ BagIn(call, calls)
    /\ calls' = Rem(calls, call)
    /\ sent' = Send(<<>>, call.conn, ReplyMsg(<<>>, call.filters))
    /\ WithinApiBounds(calls')
    /\ UNCHANGED <<sockets, clients, clientFilters, now, store,
                   scheduledLeagueJobs, jobs, timers, tasks, hourlyInstalled>>

\* The forEach of api.js:243-247 over the clients cs in insertion order: the
\* messages sent by it, and whether a send threw and ended it.
RECURSIVE notifyAll(_, _, _)
notifyAll(out, cs, m) ==
    IF cs = <<>> THEN [out |-> out, threw |-> FALSE]
    ELSE IF sockets[Head(cs)] = "failing" THEN [out |-> out, threw |-> TRUE]
    ELSE notifyAll(Send(out, Head(cs), m), Tail(cs), m)

NoConn == ""

\* The client the loop of api.js:251 takes next: the first one in insertion
\* order that it has not taken yet and that is OPEN.
NextOpen(visited) ==
    LET idx == {i \in 1..Len(clients) : clients[i] \notin visited /\ IsOpen(clients[i])}
    IN  IF idx = {} THEN NoConn ELSE clients[Min(idx)]

\* clientFilters.get(client) || [], api.js:254
currentFilters(c) ==
    IF c \in DOMAIN clientFilters /\ clientFilters[c] # Undefined
    THEN clientFilters[c]
    ELSE List(<<>>)

\* The caller of the broadcast goes on, dailySchedule.js:97-100 and server.js:18-22.
AfterBroadcast(t) == [t EXCEPT !.pc = IF t.kind = "poll" THEN "check" ELSE "query"]

\* broadcastUpdatedGames(league) up to its first await, api.js:227-255
BroadcastBegin(t) ==
    /\ t.pc = "broadcast"
    /\ LET league == IF t.kind = "poll" THEN TaskLeague(t) ELSE "ALL"
           told == notifyAll(<<>>, clients, NotificationMsg(league))
           first == NextOpen({})
       IN  IF clients = <<>>
           THEN /\ tasks' = Add(Rem(tasks, t), AfterBroadcast(t))
                /\ sent' = <<>>
                /\ UNCHANGED calls
           ELSE IF told.threw
           THEN \* the caller's await throws; the job callback catches it
                /\ tasks' = Rem(tasks, t)
                /\ sent' = told.out
                /\ UNCHANGED calls
           ELSE IF first = NoConn
           THEN /\ tasks' = Add(Rem(tasks, t), AfterBroadcast(t))
                /\ sent' = told.out
                /\ UNCHANGED calls
           ELSE /\ tasks' = Add(Rem(tasks, t), [t EXCEPT !.pc = "refreshing"])
                /\ sent' = told.out
                /\ calls' = Add(calls, Call("refresh", first, currentFilters(first), {first}))
    /\ WithinApiBounds(calls')
    /\ UNCHANGED <<sockets, clients, clientFilters, now, store,
                   scheduledLeagueJobs, jobs, timers, hourlyInstalled>>

\* Mutant: the refresh stores the selection it evaluated as the client's own.
refreshTurnStoring(call, data) ==
    LET next == NextOpen(call.visited)
    IN  /\ call.kind = "refresh"
        /\ BagIn(call, calls)
        /\ sent' = Send(<<>>, call.conn, RefreshMsg(data, call.filters))
        /\ clientFilters' = MapSet(clientFilters, call.conn, call.filters)
        /\ IF next = NoConn
           THEN /\ calls' = Rem(calls, call)
                /\ \E t \in BagToSet(tasks) :
                      /\ t.pc = "refreshing"
                      /\ tasks' = Add(Rem(tasks, t), AfterBroadcast(t))
           ELSE /\ calls' = Add(Rem(calls, call),
                                Call("refresh", next, currentFilters(next),
                                     call.visited \cup {next}))
                /\ UNCHANGED tasks
        /\ WithinApiBounds(calls')
        /\ UNCHANGED <<sockets, clients, now, store,
                       scheduledLeagueJobs, jobs, timers, hourlyInstalled>>

\* One turn of the loop of api.js:251-270 from the answer of getFilteredGames
\* on: the snapshot `data` is sent to the client in hand, then the next client's
\* filters are read and evaluated, or the broadcast returns to its caller.
refreshTurn(call, data) ==
    LET next == NextOpen(call.visited)
    IN  /\ call.kind = "refresh"
        /\ BagIn(call, calls)
        /\ sent' = Send(<<>>, call.conn, RefreshMsg(data, call.filters))
        /\ IF next = NoConn
           THEN /\ calls' = Rem(calls, call)
                /\ \E t \in BagToSet(tasks) :
                      /\ t.pc = "refreshing"
                      /\ tasks' = Add(Rem(tasks, t), AfterBroadcast(t))
           ELSE /\ calls' = Add(Rem(calls, call),
                                Call("refresh", next, currentFilters(next),
                                     call.visited \cup {next}))
                /\ UNCHANGED tasks
        /\ WithinApiBounds(calls')
        /\ UNCHANGED <<sockets, clients, clientFilters, now, store,
                       scheduledLeagueJobs, jobs, timers, hourlyInstalled>>

RefreshAnswer(call) ==
    \E data \in getFilteredGames(store, call.filters) : refreshTurn(call, data)

\* The store rejects the read: getFilteredGames returns [], api.js:56-59.
RefreshAnswerFails(call) == refreshTurn(call, <<>>)

\* The state once startup is over and the job of one league has been started:
\* its first game is at 10:15, it is 10:00, nobody has connected.
InitApi ==
    /\ now = 600
    /\ store = [l \in Leagues |-> IF l = "NFL" THEN {G(1, 615, "pre")} ELSE {}]
    /\ scheduledLeagueJobs = [l \in Leagues |-> IF l = "NFL" THEN 1 ELSE NoJob]
    /\ jobs = << [league |-> "NFL", cancelled |-> FALSE] >>
    /\ timers = EmptyBag
    /\ tasks = EmptyBag
    /\ hourlyInstalled = TRUE
    /\ sockets = [c \in Conns |-> "new"]
    /\ clients = <<>>
    /\ clientFilters = [c \in {} |-> Undefined]
    /\ sent = <<>>
    /\ calls = EmptyBag

\* The firings of the job, followed through the body of their broadcast, and
\* the connections.
NextApi ==
    \/ \E j \in 1..Len(jobs) : PollFire(j, 1)
    \/ \E t \in BagToSet(tasks) : Clear(t)
    \/ \E t \in BagToSet(tasks) : ClearFails(t)
    \/ \E t \in BagToSet(tasks) :
          /\ t.pc = "fetch"
          /\ \E board \in Scoreboards("api", Head(t.todo)) : Fetch(t, board)
    \/ \E t \in BagToSet(tasks) : FetchFails(t)
    \/ \E t \in BagToSet(tasks) : Upsert(t)
    \/ \E t \in BagToSet(tasks) : UpsertFails(t)
    \/ \E t \in BagToSet(tasks) : BroadcastBegin(t)
    \/ \E call \in BagToSet(calls) : RefreshAnswer(call)
    \/ \E call \in BagToSet(calls) : RefreshAnswerFails(call)
    \/ \E t \in BagToSet(tasks) : Check(t)
    \/ \E t \in BagToSet(tasks) : CheckFails(t)
    \/ \E t \in BagToSet(tasks) : Act(t)
    \/ \E c \in Conns : Connect(c)
    \/ \E c \in Conns : SocketFails(c)
    \/ \E c \in Conns : ErrorEvent(c)
    \/ \E c \in Conns : BeginClose(c)
    \/ \E c \in Conns : CloseEvent(c)
    \/ \E c \in Conns : \E m \in Inbound : Message(c, m)
    \/ \E call \in BagToSet(calls) : Answer(call)
    \/ \E call \in BagToSet(calls) : AnswerFails(call)

SpecApi == InitApi /\ [][NextApi]_vars

----------------------------------------------------------------------------
(* getFilteredGames as a function of the store and of the selection: the table
   holds the few games an earlier run has left in it, main() is still
   awaiting its first clearTable, and one connection asks for one selection
   after the other. *)

\* The games a league may have in the table: two NFL games start together,
\* and the live game of the NFL is its latest.
EvalGames(l) ==
    IF l = "NFL" THEN {G(1, 600, "pre"), G(2, 600, "post"), G(3, 615, "in")}
    ELSE {G(1, 600, "in"), G(2, 615, "pre")}

EvalStores ==
    {[NFL |-> nfl, NHL |-> nhl] : nfl \in SUBSET EvalGames("NFL"),
                                  nhl \in SUBSET EvalGames("NHL")}

\* Tokens of a request: leagues, states of a game, a prefixed token that names
\* no state, and a token of neither kind.
EvalTokens == {"NFL", "NHL", "state_in", "state_post", "state_final", "xyz"}

EvalSelections ==
    {List(items) : items \in UNION {[1..n -> EvalTokens] : n \in 0..MaxTokens}}

InitEval ==
    /\ now = 600
    /\ store \in EvalStores
    /\ scheduledLeagueJobs = [l \in Leagues |-> NoJob]
    /\ jobs = <<>>
    /\ timers = EmptyBag
    /\ tasks = SetToBag({Task("main", "clear", NoJob, leagueConfigs)})
    /\ hourlyInstalled = FALSE
    /\ sockets = [c \in Conns |-> "new"]
    /\ clients = <<>>
    /\ clientFilters = [c \in {} |-> Undefined]
    /\ sent = <<>>
    /\ calls = EmptyBag

NextEval ==
    \/ Connect("c1")
    \/ \E filters \in EvalSelections :
          /\ calls = EmptyBag
          /\ Message("c1", JsonMessage("filter_request", filters))
    \/ \E call \in BagToSet(calls) : Answer(call)

SpecEval == InitEval /\ [][NextEval]_vars

----------------------------------------------------------------------------
(* Vocabulary of the properties *)

JobIds == 1..Len(jobs)

LiveJobs(l) == {j \in JobIds : jobs[j].league = l /\ ~jobs[j].cancelled}

PollTasks == {t \in BagToSet(tasks) : t.kind = "poll"}

\* The step removes one copy of task t (t finishes or moves on).
Leaves(t) == CopiesIn(t, tasks') < CopiesIn(t, tasks)

----------------------------------------------------------------------------
(* C1: every league has at most one live (non-cancelled) recurring poll job
   and at most one registry entry, whatever the interleaving of daily and
   hourly runs, start timers, firings and self-cancellations. *)
C1_AtMostOneLiveJob ==
    \A l \in Leagues :
        /\ Cardinality(LiveJobs(l)) <= 1
        /\ scheduledLeagueJobs[l] \in JobIds \cup {NoJob}

(* C10: the poll-task body of a league never runs concurrently with itself:
   a job has at most one firing in flight. *)
C10_NoOverlappingFirings ==
    \A j \in JobIds :
        BagCardinality([t \in {u \in PollTasks : u.job = j} |-> tasks[t]]) <= 1

(* C5: a firing whose ingest step failed neither cancels its job nor removes
   the league's registry entry. *)
C5_FailedIngestKeepsTask ==
    [][ \A t \in PollTasks :
          (t.pc = "act" /\ t.ingestError /\ Leaves(t))
             => /\ jobs'[t.job].cancelled = jobs[t.job].cancelled
                /\ scheduledLeagueJobs' = scheduledLeagueJobs ]_vars

\* A firing of job j begins in this step.
Begins(j) ==
    LET t == Task("poll", "clear", j, <<jobs[j].league>>)
    IN  CopiesIn(t, tasks') > CopiesIn(t, tasks)

\* The next segment of an invocation in flight can run.
CanContinue(t) ==
    ENABLED (\/ Clear(t) \/ FetchFails(t) \/ Upsert(t) \/ Broadcast(t)
             \/ Check(t) \/ Act(t) \/ Query(t) \/ Process(t))

(* C2: a cancelled job stays cancelled and none of its firings begins any
   more, while its firings in flight are kept and go on; startFrequentPoll
   cancels the registered job and installs the new one in one step, so the
   registry never names a cancelled job. *)
C2_CancelStopsFutureFirings ==
    [][ /\ \A j \in JobIds :
              jobs[j].cancelled => jobs'[j].cancelled /\ ~Begins(j)
        /\ \A j \in JobIds :
              (~jobs[j].cancelled /\ jobs'[j].cancelled)
                 => /\ scheduledLeagueJobs'[jobs[j].league] # j
                    /\ \A t \in PollTasks :
                          (t.job = j /\ t.pc # "act")
                             => /\ CopiesIn(t, tasks') = CopiesIn(t, tasks)
                                /\ CanContinue(t)'
        /\ \A l \in Leagues :
              LET old == scheduledLeagueJobs[l]
                  new == scheduledLeagueJobs'[l]
              IN  (new # old /\ new # NoJob)
                     => /\ new = Len(jobs) + 1
                        /\ new \in DOMAIN jobs'
                        /\ jobs'[new] = [league |-> l, cancelled |-> FALSE]
                        /\ old # NoJob => jobs'[old].cancelled ]_vars

\* A replaced job (cancelled, another job registered for its league) whose
\* firing in flight has gone on to its all-final check.
C2_Witness ==
    \E t \in PollTasks :
        /\ jobs[t.job].cancelled
        /\ t.pc = "act"
        /\ scheduledLeagueJobs[TaskLeague(t)] \notin {NoJob, t.job}
        /\ ~jobs[scheduledLeagueJobs[TaskLeague(t)]].cancelled

\* The league has a not-final game today, in the words of the claims.
HasNotFinalToday(l) ==
    \E g \in store[l] :
        /\ currentDay(now) <= g.start
        /\ g.start < currentDay(now) + MinutesPerDay
        /\ g.state \notin {"post", "completed", "final"}

(* C3: a firing cancels its job and removes the league's registry entry when
   its all-final check returned true, and only then: the check returns true
   exactly when the league has no not-final game today, a firing whose check
   returned false changes neither the jobs nor the registry, and no job is
   cancelled without being replaced except by such a firing. *)
C3_SelfCancelOnAllFinalOnly ==
    [][ /\ \A t \in PollTasks :
              (t.pc = "check" /\ Leaves(t))
                 => \/ tasks' = Rem(tasks, t)
                    \/ tasks' = Add(Rem(tasks, t),
                                    [t EXCEPT !.pc = "act",
                                              !.done = ~HasNotFinalToday(TaskLeague(t))])
        /\ \A t \in PollTasks :
              (t.pc = "act" /\ Leaves(t))
                 => IF t.done
                    THEN /\ jobs'[t.job].cancelled
                         /\ scheduledLeagueJobs'[TaskLeague(t)] = NoJob
                    ELSE /\ jobs' = jobs
                         /\ scheduledLeagueJobs' = scheduledLeagueJobs
        /\ \A j \in JobIds :
              (~jobs[j].cancelled /\ jobs'[j].cancelled /\ Len(jobs') = Len(jobs))
                 => \E t \in PollTasks :
                       t.job = j /\ t.pc = "act" /\ t.done /\ Leaves(t) ]_vars

\* The only job ever created has cancelled itself on a final scoreboard.
C3_Witness ==
    /\ Len(jobs) = 1
    /\ jobs[1].cancelled
    /\ scheduledLeagueJobs[jobs[1].league] = NoJob
    /\ store[jobs[1].league] # {}
    /\ ~HasNotFinalToday(jobs[1].league)

----------------------------------------------------------------------------
(* Daily runs: the step in which a run of runDailySchedule decides, on the
   rows its query returned *)

\* Task t is a run whose steps 2 and 3 happen in this step.
Decides(t) == t.pc = "process" /\ Leaves(t)

RowsOf(t, l) == {r \in t.rows : r.league = l}

\* The step creates a recurring job for league l and registers it.
StartsJob(l) ==
    /\ scheduledLeagueJobs'[l] \in DOMAIN jobs'
    /\ scheduledLeagueJobs'[l] > Len(jobs)
    /\ jobs'[scheduledLeagueJobs'[l]] = [league |-> l, cancelled |-> FALSE]

\* The step creates no recurring job for league l.
NoNewJob(l) == \A j \in DOMAIN jobs' : j > Len(jobs) => jobs'[j].league # l

\* The step leaves the existing jobs of league l as they are.
SameJobs(l) == \A j \in JobIds : jobs[j].league = l => jobs'[j] = jobs[j]

\* The step leaves the pending timers of league l as they are, tm excepted.
SameTimersBut(l, tm) ==
    \A x \in BagToSet(timers) \cup BagToSet(timers') :
        (x.league = l /\ x # tm) => CopiesIn(x, timers') = CopiesIn(x, timers)

SameTimers(l) == SameTimersBut(l, [league |-> "", time |-> 0])

(* C6: for every league of the rows of a daily run, with pollStartTime the
   earliest start minus 15 minutes: when pollStartTime is before now or one
   of the league's rows is in state 'in', the run starts the league's
   recurring job and adds no timer; otherwise the run adds exactly one
   one-shot timer at pollStartTime and starts no job. *)
C6_StartNowOrOneShot ==
    [][ \A t \in BagToSet(tasks) : Decides(t) =>
          \A l \in {r.league : r \in t.rows} :
             LET ps == Min({r.start_time : r \in RowsOf(t, l)}) - 15
                 tm == [league |-> l, time |-> ps]
             IN  IF ps < now \/ \E r \in RowsOf(t, l) : r.state = "in"
                 THEN StartsJob(l) /\ SameTimers(l)
                 ELSE /\ CopiesIn(tm, timers') = CopiesIn(tm, timers) + 1
                      /\ SameTimersBut(l, tm)
                      /\ scheduledLeagueJobs'[l] = scheduledLeagueJobs[l]
                      /\ NoNewJob(l) /\ SameJobs(l) ]_vars

\* One run has started the job of a league with a game in progress in an hour
\* and has set the timer of a league whose first game is in an hour.
C6_Witness ==
    /\ now = 600 /\ tasks = EmptyBag /\ hourlyInstalled
    /\ store["NFL"] = {G(1, 660, "in")}
    /\ store["NHL"] = {G(1, 660, "pre")}
    /\ jobs = << [league |-> "NFL", cancelled |-> FALSE] >>
    /\ scheduledLeagueJobs["NFL"] = 1
    /\ timers = SetToBag({[league |-> "NHL", time |-> 645]})

(* C7: a league of the rows of a daily run whose pollStartTime equals now has
   its recurring job started by the run, with no one-shot timer. *)
C7_EqualStartsImmediately ==
    [][ \A t \in BagToSet(tasks) : Decides(t) =>
          \A l \in {r.league : r \in t.rows} :
             (Min({r.start_time : r \in RowsOf(t, l)}) - 15 = now)
                => StartsJob(l) /\ SameTimers(l) ]_vars

(* C8 as stated: after a daily run, a league with no not-final game today has
   no job created by the run and no live job at all. *)
C8_NoTaskRemains ==
    [][ \A t \in BagToSet(tasks) : Decides(t) =>
          \A l \in Leagues :
             ~HasNotFinalToday(l) => NoNewJob(l) /\ LiveJobs(l)' = {} ]_vars

(* C8, amended: for a league with no not-final game today a daily run creates
   no job and no timer; the jobs the league already has, live or not, and its
   registry entry are left as they are. *)
C8_NoTaskCreatedWhenAllFinal ==
    [][ \A t \in BagToSet(tasks) : Decides(t) =>
          \A l \in Leagues :
             ~HasNotFinalToday(l)
                => /\ NoNewJob(l) /\ SameJobs(l) /\ SameTimers(l)
                   /\ scheduledLeagueJobs'[l] = scheduledLeagueJobs[l] ]_vars

\* Runs have completed on a store where one league's only game is final, and
\* that league has never had a job or a timer, while the other league has.
C8_Witness ==
    /\ tasks = EmptyBag /\ hourlyInstalled
    /\ store["NFL"] = {G(1, 600, "post")}
    /\ HasNotFinalToday("NHL")
    /\ \A j \in JobIds : jobs[j].league # "NFL"
    /\ \A tm \in BagToSet(timers) : tm.league # "NFL"
    /\ BagCardinality(timers) = 2

(* C9: a daily run changes nothing of a league absent from its rows: no job
   and no timer is created for it, its existing jobs are neither cancelled nor
   removed and its registry entry stays; on empty rows the run changes
   neither the registry nor the jobs nor the pending timers. *)
C9_AbsentLeaguesUntouched ==
    [][ \A t \in BagToSet(tasks) : Decides(t) =>
          /\ \A l \in Leagues \ {r.league : r \in t.rows} :
                /\ NoNewJob(l) /\ SameJobs(l) /\ SameTimers(l)
                /\ scheduledLeagueJobs'[l] = scheduledLeagueJobs[l]
          /\ t.rows = {} => /\ scheduledLeagueJobs' = scheduledLeagueJobs
                            /\ jobs' = jobs
                            /\ timers' = timers ]_vars

\* A league's registered live job, started by the first run, is still there
\* after the second run, which found the league's only game final.
C9_Witness ==
    /\ tasks = EmptyBag /\ hourlyInstalled
    /\ jobs = << [league |-> "NFL", cancelled |-> FALSE] >>
    /\ scheduledLeagueJobs["NFL"] = 1
    /\ store["NFL"] = {G(1, 600, "post")}
    /\ timers = SetToBag({[league |-> "NHL", time |-> 645]})
           (+) SetToBag({[league |-> "NHL", time |-> 645]})

----------------------------------------------------------------------------
(* C4: if from some point on league l has no not-final game today, then from
   some point on l has no live job and no registry entry: no job of l keeps
   firing for ever, whatever the broadcasts of its firings do. *)
C4_FinalLeagueStopsPolling ==
    \A l \in Leagues :
        (<>[](~HasNotFinalToday(l)))
           => <>[](LiveJobs(l) = {} /\ scheduledLeagueJobs[l] = NoJob)

----------------------------------------------------------------------------
(* Ingest cycles: ingestData followed by what its caller does next *)

\* A copy of task u appears in this step.
Arrives(u) == CopiesIn(u, tasks') > CopiesIn(u, tasks)

(* C11: once the ingest of a firing for league l has completed, and until the
   firing has evaluated its all-final check, no step changes the games of l
   in the store: the check reads the state that ingest produced. *)
C11_CheckReadsOwnIngest ==
    [][ \A t \in PollTasks :
          (t.pc \in {"broadcast", "check"} /\ ~Leaves(t))
             => store'[TaskLeague(t)] = store[TaskLeague(t)] ]_vars

(* C12: the broadcast of a cycle starts only when the cycle's ingest has
   nothing left to write: a caller awaiting the broadcast has no league and no
   fetched game pending; it reaches the broadcast from ingestData only, and if
   that step writes it is the last upsert of the last league; the step in
   which the broadcast returns writes nothing. *)
C12_BroadcastAfterIngest ==
    /\ [](\A t \in BagToSet(tasks) :
            t.pc = "broadcast" => t.todo = <<>> /\ t.fetched = <<>>)
    /\ [][ \A u \in BagToSet(tasks') :
              (u.pc = "broadcast" /\ Arrives(u))
                 => \E t \in BagToSet(tasks) :
                       /\ t.pc \in {"fetch", "upsert"} /\ Leaves(t)
                       /\ t.kind = u.kind /\ t.job = u.job
                       /\ \/ store' = store
                          \/ /\ t.pc = "upsert"
                             /\ Len(t.todo) = 1 /\ Len(t.fetched) = 1 ]_vars
    /\ [][ \A t \in BagToSet(tasks) :
              (t.pc = "broadcast" /\ Leaves(t)) => store' = store ]_vars

\* The startup cycle has written a league's games and awaits its broadcast.
C12_Witness ==
    \E t \in BagToSet(tasks) :
        /\ t.kind = "main" /\ t.pc = "broadcast"
        /\ store["NFL"] # {}

(* C13: every ingest cycle is followed by one broadcast: a caller that leaves
   ingestData normally awaits broadcastUpdatedGames next. *)
C13_IngestThenBroadcast ==
    [][ \A t \in BagToSet(tasks) :
          (t.pc \in {"fetch", "upsert"} /\ Leaves(t))
             => \E u \in BagToSet(tasks') :
                   /\ Arrives(u) /\ u.kind = t.kind /\ u.job = t.job
                   /\ u.pc \in {"fetch", "upsert", "broadcast"} ]_vars

(* C20: no failure of a cycle disables scheduling: once main() is over the
   hourly job is installed. *)
C20_HourlyJobInstalled ==
    (\A t \in BagToSet(tasks) : t.kind # "main") => hourlyInstalled

----------------------------------------------------------------------------
(* Vocabulary of the properties about connections *)

\* Invocation call is awaiting in the state after the step and was not before.
CallBegins(call) == CopiesIn(call, calls') > CopiesIn(call, calls)

\* Invocation call is answered by the step.
CallEnds(call) == CopiesIn(call, calls') < CopiesIn(call, calls)

RefreshCalls(cls) == {call \in BagToSet(cls) : call.kind = "refresh"}

HandlerCalls(cls) == {call \in BagToSet(cls) : call.kind # "refresh"}

\* The connections the latest step sent something to.
Recipients(out) == {out[i].to : i \in 1..Len(out)}

(* C14: in a refresh push every registered open connection is taken once, with
   its stored selection as read at that moment; its turn sends it exactly one
   filtered_data message tagged is_refresh, carrying those filters and what
   the filter evaluation of the store returned for them; the push ends only
   when every registered open connection has been taken.  No other step
   sends a message tagged is_refresh. *)
C14_RefreshSnapshot ==
    /\ [][ \A call \in RefreshCalls(calls') :
              CallBegins(call)
                 => /\ call.conn \in Registered /\ IsOpen(call.conn)
                    /\ clientFilters[call.conn] # Undefined
                          => call.filters = clientFilters[call.conn]
                    /\ \A old \in RefreshCalls(calls) :
                          call.conn \notin old.visited ]_vars
    /\ [][ \A call \in RefreshCalls(calls) :
              CallEnds(call)
                 => /\ sockets[call.conn] = "open"
                          => /\ Len(sent') = 1
                             /\ sent'[1].to = call.conn
                             /\ sent'[1].msg.type = "filtered_data"
                             /\ sent'[1].msg.is_refresh
                             /\ sent'[1].msg.filters = call.filters
                             /\ sent'[1].msg.data \in
                                   getFilteredGames(store, call.filters) \cup {<<>>}
                             /\ sent'[1].msg.count = Len(sent'[1].msg.data)
                    /\ sockets[call.conn] # "open" => sent' = <<>>
                    /\ RefreshCalls(calls') = {}
                          => \A c \in Registered : IsOpen(c) => c \in call.visited ]_vars
    /\ [][ (\A call \in RefreshCalls(calls) : ~CallEnds(call))
              => \A i \in 1..Len(sent') : ~sent'[i].msg.is_refresh ]_vars

\* A refresh with the NFL games has been sent to a connection that selected NFL.
C14_Witness ==
    \E i \in 1..Len(sent) :
        /\ sent[i].msg.is_refresh
        /\ sent[i].msg.filters = List(<<"NFL">>)
        /\ Len(sent[i].msg.data) = 2

(* C15: a send failure on one connection does not keep the others from their
   part of the broadcast: the step that sends the change notifications
   reaches every registered connection whose socket is sound, and the
   broadcast goes on to the refresh push. *)
C15_SendFailureIsolated ==
    [][ \A t \in BagToSet(tasks) :
          (t.pc = "broadcast" /\ Leaves(t))
             => \A c \in Registered :
                   sockets[c] = "open"
                      => /\ \E i \in 1..Len(sent') :
                               /\ sent'[i].to = c
                               /\ sent'[i].msg.type = "games_updated"
                         /\ \E u \in BagToSet(tasks') :
                               Arrives(u) /\ u.pc = "refreshing" ]_vars

(* C16: a close or error event unregisters its connection in the same step and
   for good; no step sends anything to a connection that is not registered;
   a refresh turn whose connection has gone sends nothing and the loop goes
   on; and a broadcast that meets no registered connection with a broken
   socket returns to its caller after notifying every registered connection
   whose socket is sound. *)
C16_UnregisteredIsSkipped ==
    /\ [][ \A c \in Conns :
              (sockets'[c] # sockets[c] /\ sockets'[c] \in {"closing", "closed"}
                 /\ sockets[c] # "open")
                 => c \notin Registered' /\ c \notin DOMAIN clientFilters' ]_vars
    /\ [][ \A c \in Registered' \ Registered : sockets[c] = "new" ]_vars
    /\ [](Recipients(sent) \subseteq Registered)
    /\ [][ \A call \in RefreshCalls(calls) :
              (CallEnds(call) /\ call.conn \notin Registered)
                 => /\ sent' = <<>>
                    /\ \/ \E next \in RefreshCalls(calls') :
                             /\ CallBegins(next)
                             /\ next.conn \in Registered
                       \/ /\ RefreshCalls(calls') = {}
                          /\ \E u \in BagToSet(tasks') : Arrives(u) /\ u.pc = "check"
                          /\ \A c \in Registered : IsOpen(c) => c \in call.visited ]_vars
    /\ [][ \A t \in BagToSet(tasks) :
              (t.pc = "broadcast" /\ Leaves(t)
                 /\ \A c \in Registered : sockets[c] # "failing")
                 => /\ \E u \in BagToSet(tasks') :
                          Arrives(u) /\ u.pc \in {"refreshing", "check"}
                    /\ \A c \in Registered :
                          sockets[c] = "open"
                             => \E i \in 1..Len(sent') :
                                   /\ sent'[i].to = c
                                   /\ sent'[i].msg.type = "games_updated" ]_vars

\* A refresh push is in progress; a connection it has taken is unregistered
\* and the loop is at another, registered one.
C16_Witness ==
    \E call \in RefreshCalls(calls) :
        /\ call.conn \in Registered
        /\ \E c \in call.visited : c # call.conn /\ c \notin Registered

(* C17: every registered connection has one stored filter selection, the empty
   list from the step that registers it; the selection changes only in the
   step that handles a filter_request of that connection, and becomes the
   filters of the request whatever it was before. *)
C17_OneSelectionReplaced ==
    /\ [](Registered \subseteq DOMAIN clientFilters)
    /\ [][ \A c \in Registered' \ Registered :
              clientFilters'[c] = List(<<>>) ]_vars
    /\ [][ \A call \in HandlerCalls(calls') :
              (CallBegins(call) /\ call.kind = "filter_request")
                 => clientFilters'[call.conn] = call.filters ]_vars
    /\ [][ \A c \in DOMAIN clientFilters \cap DOMAIN clientFilters' :
              clientFilters'[c] # clientFilters[c]
                 => \E call \in HandlerCalls(calls') :
                       /\ CallBegins(call)
                       /\ call.kind = "filter_request"
                       /\ call.conn = c ]_vars

\* A registered connection has asked for NFL: its selection, empty until then,
\* is the request's list and the reply is awaited.
C17_Witness ==
    \E call \in HandlerCalls(calls) :
        /\ call.kind = "filter_request"
        /\ call.filters = List(<<"NFL">>)
        /\ call.conn \in Registered
        /\ clientFilters[call.conn] = List(<<"NFL">>)

(* C18: a filter_request is a point query: the step that handles it changes
   the stored selection of no other connection and sends nothing; the step
   that answers it changes no stored selection and sends one filtered_data
   reply, untagged and carrying the request's filters, to the requesting
   connection and nothing to any other. *)
C18_FilterRequestIsPointQuery ==
    /\ [][ \A call \in HandlerCalls(calls') :
              (CallBegins(call) /\ call.kind = "filter_request")
                 => /\ clients' = clients
                    /\ DOMAIN clientFilters' = DOMAIN clientFilters
                    /\ \A d \in DOMAIN clientFilters \ {call.conn} :
                          clientFilters'[d] = clientFilters[d]
                    /\ sent' = <<>> ]_vars
    /\ [][ \A call \in HandlerCalls(calls) :
              (CallEnds(call) /\ call.kind = "filter_request")
                 => /\ clients' = clients
                    /\ clientFilters' = clientFilters
                    /\ Recipients(sent') \subseteq {call.conn}
                    /\ Len(sent') <= 1
                    /\ sockets[call.conn] = "open"
                          => /\ Len(sent') = 1
                             /\ sent'[1].msg.type = "filtered_data"
                             /\ ~sent'[1].msg.is_refresh
                             /\ sent'[1].msg.filters = call.filters ]_vars

\* The reply to an NFL request has been sent to its connection while another
\* connection is registered with a sound socket.
C18_Witness ==
    /\ Len(sent) = 1
    /\ sent[1].msg.type = "filtered_data"
    /\ ~sent[1].msg.is_refresh
    /\ sent[1].msg.filters = List(<<"NFL">>)
    /\ \E d \in Registered : d # sent[1].to /\ sockets[d] = "open"

(* C19: a malformed inbound message is answered with an error envelope to its
   connection only and changes nothing: a step that sends an error sends
   that one message, to a connection that stays open and registered, and
   leaves the registry as it was; and a filter_request whose filters are
   missing or not a list is among the malformed ones, so that it is never
   stored as a selection nor evaluated. *)
C19_MalformedGetsError ==
    /\ [][ (\E i \in 1..Len(sent') : sent'[i].msg.type = "error")
              => /\ Len(sent') = 1
                 /\ sent'[1].to \in Registered'
                 /\ sockets'[sent'[1].to] = "open"
                 /\ clients' = clients
                 /\ clientFilters' = clientFilters ]_vars
    /\ [](\A c \in DOMAIN clientFilters : clientFilters[c].tag = "list")
    /\ [](\A call \in HandlerCalls(calls) : call.filters.tag = "list")

(* C21: a store failure during a daily run or a poll firing aborts that
   invocation only and leaves the registry, the jobs and the pending timers
   as they are: the step in which a store call is rejected and the invocation
   ends changes none of them, and neither does any later step of a firing
   whose upsertGame was rejected. *)
C21_StoreFailureKeepsScheduler ==
    /\ [][ \A t \in BagToSet(tasks) :
              (t.pc \in {"clear", "check", "query"} /\ Leaves(t)
                 /\ \A u \in BagToSet(tasks') : ~Arrives(u))
                 => /\ scheduledLeagueJobs' = scheduledLeagueJobs
                    /\ jobs' = jobs
                    /\ timers' = timers ]_vars
    /\ [][ \A t \in PollTasks :
              (t.storeError /\ Leaves(t))
                 => /\ scheduledLeagueJobs' = scheduledLeagueJobs
                    /\ jobs' = jobs
                    /\ timers' = timers ]_vars

(* C22: a fetch or upsert failure for one league does not abort the batch: an
   ingest that leaves a fetch or an upsert with leagues still to come goes
   on with the same league or the next one. *)
C22_BatchSurvivesLeagueFailure ==
    [][ \A t \in BagToSet(tasks) :
          (t.pc \in {"fetch", "upsert"} /\ Leaves(t) /\ Len(t.todo) > 1)
             => \E u \in BagToSet(tasks') :
                   /\ Arrives(u) /\ u.kind = t.kind /\ u.job = t.job
                   /\ u.pc \in {"fetch", "upsert"}
                   /\ u.todo \in {t.todo, Tail(t.todo)} ]_vars

(* C23: when the fetch of league L fails in a firing of L's poll task, L's
   stored games are what they were before the cycle and the firing does not
   stop the task: the step in which the fetch fails leaves in the store the
   games L had before the firing's clearTable, and no later step of that
   firing cancels the job or changes the registry. *)
C23_FailedFetchSkipsLeague ==
    /\ [][ \A t \in PollTasks :
              (t.pc = "fetch" /\ Leaves(t)
                 /\ \E u \in BagToSet(tasks') :
                       Arrives(u) /\ u.job = t.job /\ u.ingestError)
                 => store'[TaskLeague(t)] = t.before ]_vars
    /\ [][ \A t \in PollTasks :
              (t.ingestError /\ ~t.storeError /\ Leaves(t))
                 => /\ jobs'[t.job].cancelled = jobs[t.job].cancelled
                    /\ scheduledLeagueJobs' = scheduledLeagueJobs ]_vars

----------------------------------------------------------------------------
(* Vocabulary of the properties about filter evaluation *)

\* The latest step has sent a filtered_data message.
Answered == sent # <<>> /\ sent[1].msg.type = "filtered_data"

\* The games of a list.
Games(data) == {data[i] : i \in 1..Len(data)}

Tokens(filters) == {filters.items[i] : i \in 1..Len(filters.items)}

\* The league tokens of a selection, and the states its state tokens name.
LeaguesAsked(filters) == Tokens(filters) \cap KnownLeagueTokens

StatesAsked(filters) ==
    {StateTokenMap[tok] : tok \in Tokens(filters) \cap DOMAIN StateTokenMap}

\* A token that is neither a league token nor maps to a state of a game.
Unrecognized(tok) ==
    /\ tok \notin KnownLeagueTokens
    /\ tok \notin {"state_pre", "state_in", "state_post"}

\* A list without its i-th element.
Without(items, i) == SubSeq(items, 1, i - 1) \o SubSeq(items, i + 1, Len(items))

\* The table that holds exactly the games of a list.
TableOf(data) ==
    [l \in Leagues |-> {G(r.id, r.start, r.state) : r \in {x \in Games(data) : x.league = l}}]

(* C24: evaluating the empty selection returns exactly the games of the table,
   each once. *)
C24_EmptySelectionReturnsAll ==
    (Answered /\ sent[1].msg.filters = List(<<>>))
       => /\ Games(sent[1].msg.data) = AllRows(store)
          /\ Len(sent[1].msg.data) = Cardinality(AllRows(store))

\* The empty selection has been answered on the table of five games.
C24_Witness ==
    /\ Answered
    /\ sent[1].msg.filters = List(<<>>)
    /\ Len(sent[1].msg.data) = 5

(* C25: every game returned by a filter evaluation is a game of the table. *)
C25_ResultIsSubset ==
    Answered => Games(sent[1].msg.data) \subseteq AllRows(store)

\* A selection of a league and a state has been answered with one of the five
\* games of the table.
C25_Witness ==
    /\ Answered
    /\ sent[1].msg.filters = List(<<"NFL", "state_in">>)
    /\ Len(sent[1].msg.data) = 1
    /\ Cardinality(AllRows(store)) = 5

(* C26: filter evaluation is idempotent: evaluating the selection on the table
   of the games returned gives the list returned, and no other. *)
C26_EvaluationIdempotent ==
    (Answered /\ sent[1].msg.filters.tag = "list")
       => getFilteredGames(TableOf(sent[1].msg.data), sent[1].msg.filters)
             = {sent[1].msg.data}

(* C27: the games returned are those of the table whose league is among the
   league tokens, if there are any, and whose state is among the states the
   state tokens name, if there are any. *)
C27_LeagueUnionStateRestriction ==
    (Answered /\ sent[1].msg.filters.tag = "list")
       => Games(sent[1].msg.data)
             = {g \in AllRows(store) :
                  /\ LeaguesAsked(sent[1].msg.filters) = {}
                        \/ g.league \in LeaguesAsked(sent[1].msg.filters)
                  /\ StatesAsked(sent[1].msg.filters) = {}
                        \/ g.state \in StatesAsked(sent[1].msg.filters)}

\* Two leagues have been asked for and the five games of the table returned.
C27_Witness ==
    /\ Answered
    /\ sent[1].msg.filters = List(<<"NHL", "NFL">>)
    /\ Len(sent[1].msg.data) = 5

(* C28: an unrecognized token has no effect: the answer to a selection that
   holds one is an answer to the selection without it. *)
C28_UnrecognizedTokenIgnored ==
    (Answered /\ sent[1].msg.filters.tag = "list")
       => \A i \in 1..Len(sent[1].msg.filters.items) :
             Unrecognized(sent[1].msg.filters.items[i])
                => sent[1].msg.data \in
                      getFilteredGames(store,
                                       List(Without(sent[1].msg.filters.items, i)))

(* C29: whatever the selection, the list returned is ordered live games first,
   then by league, start time and game id: it is the games it holds in the
   order of getAllGames. *)
C29_ResultOrder ==
    (Answered /\ sent[1].msg.filters.tag = "list")
       => sent[1].msg.data = OrderedAll(Games(sent[1].msg.data))

(* C30: a broadcast, that is its change notification and each turn of its
   refresh loop, neither adds a connection to the registry nor removes one,
   and leaves every stored filter selection as it was. *)
C30_BroadcastKeepsRegistry ==
    [][ (\/ \E t \in BagToSet(tasks) : t.pc = "broadcast" /\ Leaves(t)
         \/ \E call \in RefreshCalls(calls) : CallEnds(call))
           => /\ clients' = clients
              /\ clientFilters' = clientFilters ]_vars

\* A refresh has been pushed to the second of two registered connections, one
\* of which has stored the selection NFL and the other an undefined one.
C30_Witness ==
    /\ Len(clients) = 2
    /\ \E i \in 1..Len(sent) : sent[i].msg.is_refresh /\ sent[i].to = clients[2]
    /\ clientFilters[clients[1]] = List(<<"NFL">>)
    /\ clientFilters[clients[2]] = Undefined

----------------------------------------------------------------------------
(* The daily run invoked again, and the registry over time *)

\* The scheduler state after the step.
SchedAfter == [reg |-> scheduledLeagueJobs', jobs |-> jobs', timers |-> timers']

\* The live jobs of league l in a scheduler state.
LiveIn(sched, l) ==
    {j \in DOMAIN sched.jobs : sched.jobs[j].league = l /\ ~sched.jobs[j].cancelled}

\* The pending one-shot timers of league l.
TimersOf(l) == [tm \in {x \in BagToSet(timers) : x.league = l} |-> timers[tm]]

(* C31: the daily run is idempotent to re-invoke: steps 2 and 3 run once more
   on the same rows at the same time, right after a run, leave for every
   league as many live poll jobs as the first run left, and the same pending
   one-shot timers. *)
C31_DailyRunIdempotent ==
    [][ \A t \in BagToSet(tasks) : Decides(t) =>
          LET twice == runDailySchedule(SchedAfter, t.rows, now)
          IN  /\ \A l \in Leagues :
                    Cardinality(LiveIn(twice, l)) = Cardinality(LiveIn(SchedAfter, l))
              /\ twice.timers = timers' ]_vars

\* The step adds a pending one-shot timer for league l.
AddsTimer(l) ==
    \E tm \in BagToSet(timers') :
        tm.league = l /\ CopiesIn(tm, timers') = CopiesIn(tm, timers) + 1

(* C32: a daily run that finds a not-final game today for a league whose poll
   job has cancelled itself (the league has a cancelled job and no registry
   entry) restarts polling: it starts the league's job or adds a one-shot
   timer for it. *)
C32_RestartAfterSelfCancel ==
    [][ \A t \in BagToSet(tasks) : Decides(t) =>
          \A l \in {r.league : r \in t.rows} :
             (/\ scheduledLeagueJobs[l] = NoJob
              /\ \E j \in JobIds : jobs[j].league = l /\ jobs[j].cancelled)
                => StartsJob(l) \/ AddsTimer(l) ]_vars

\* The league's only job has cancelled itself, a later ingest has stored a
\* game that starts in an hour, and the run has set the league's timer.
C32_Witness ==
    /\ now = 600 /\ tasks = EmptyBag
    /\ jobs = << [league |-> "NFL", cancelled |-> TRUE] >>
    /\ scheduledLeagueJobs["NFL"] = NoJob
    /\ store["NFL"] = {G(1, 660, "pre")}
    /\ timers = SetToBag({[league |-> "NFL", time |-> 645]})

(* C33: the self-cancel step of a firing removes only its own job's registry
   entry, and every live poll job is the one the registry records for its
   league. *)
C33_SelfCancelRemovesOwnEntry ==
    /\ [][ \A t \in PollTasks :
              (t.pc = "act" /\ Leaves(t))
                 => \A l \in Leagues :
                       scheduledLeagueJobs[l] # t.job
                          => scheduledLeagueJobs'[l] = scheduledLeagueJobs[l] ]_vars
    /\ [](\A l \in Leagues : \A j \in LiveJobs(l) : scheduledLeagueJobs[l] = j)

(* C34: every league has at most one pending one-shot start timer. *)
C34_AtMostOnePendingTimer ==
    \A l \in Leagues : BagCardinality(TimersOf(l)) <= 1

----------------------------------------------------------------------------
(* Connections, stored selections and snapshots under interleaving *)

(* C35: the registered connections are exactly the connections that have a
   stored filter selection: connect adds both, close and error remove both,
   and no handler stores a selection for a connection that has been
   removed. *)
C35_RegistryMatchesSelections ==
    Registered = DOMAIN clientFilters

\* A connection has sent a filter_request and has been removed while its
\* handler awaits the store; another connection is registered.
C35_Witness ==
    /\ \E call \in BagToSet(calls) :
          /\ call.kind = "filter_request"
          /\ sockets[call.conn] = "closed"
          /\ call.conn \notin Registered
    /\ Registered # {}

\* An ingest has cleared a league's games and has not finished writing them
\* back.
IngestInProgress == \E t \in BagToSet(tasks) : t.pc \in {"fetch", "upsert"}

(* C36: a refresh evaluated with a selection that its connection has replaced
   in the meantime is not delivered after the reply to the filter_request
   that replaced it: when a refresh is delivered, its filters are the
   connection's stored selection, or the handler of the filter_request that
   stored the selection has not replied yet. *)
C36_NoStaleRefreshAfterReply ==
    [][ \A call \in RefreshCalls(calls) :
          (/\ CallEnds(call)
           /\ call.conn \in Registered
           /\ sockets[call.conn] = "open")
             => \/ call.filters = currentFilters(call.conn)
                \/ \E h \in HandlerCalls(calls) :
                      /\ h.kind = "filter_request"
                      /\ h.conn = call.conn
                      /\ h.filters = clientFilters[call.conn] ]_vars

(* C37: no snapshot is delivered that was read from the store while an ingest
   had cleared a league's games and not yet written them back. *)
C37_NoSnapshotOfClearedStore ==
    [][ \A call \in BagToSet(calls) :
          (/\ CallEnds(call)
           /\ \E i \in 1..Len(sent') : sent'[i].msg.type = "filtered_data")
             => ~IngestInProgress ]_vars

(* C38: a filtered_data message with an empty game list is sent only when no
   stored game matches the filters it was evaluated with. *)
C38_EmptySnapshotMeansNoMatch ==
    [][ \A i \in 1..Len(sent') :
          (sent'[i].msg.type = "filtered_data" /\ sent'[i].msg.data = <<>>)
             => <<>> \in getFilteredGames(store, sent'[i].msg.filters) ]_vars

(* C39: each stored game appears at most once in the list returned by a
   filter evaluation, and the count of the message is the number of distinct
   games returned. *)
C39_NoDuplicateGames ==
    Answered
       => /\ Len(sent[1].msg.data) = Cardinality(Games(sent[1].msg.data))
          /\ sent[1].msg.count = Cardinality(Games(sent[1].msg.data))

====
